---- MODULE Spec2Model ----
(***************************************************************************)
(* Model of prodinf-srv/event_app.py: the event HTTP service.  Each worker *)
(* handles one request at a time; a request is a sequence of steps, one    *)
(* per access to shared state (the hives cache) or to an external system   *)
(* (the hive backend, the message bus, the task queue).  Code that only    *)
(* touches the request's own data is part of the step it leads to.         *)
(***************************************************************************)
EXTENDS Naturals, Integers, Sequences, FiniteSets, TLC

\* ------------------------------------------------------------ bounds
\* Job ids a backend can hand out before it refuses further jobs.
MaxJobs == 2

\* ------------------------------------------------------- configuration
\* The event lookup document (event_app.py:52-53): event type -> ordered
\* process names.  "e2" lists a process that the process table does not hold.
event_lookup_json == [e1 |-> <<"p1", "p2">>, e2 |-> <<"p2", "px">>]

\* The process lookup document (event_app.py:67-68): process name ->
\* descriptor.
process_lookup_json ==
  [p1 |-> [hive_uri |-> "u1", analysis |-> "a1"],
   p2 |-> [hive_uri |-> "u2", analysis |-> "a2"]]

\* Process names a request path can carry.
ProcessNames == {"p1", "p2", "px"}

\* Status code of an HTTPRequestError raised without one.
DefaultStatusCode == 400

\* Content-Type headers, as the sequence of their parts.
CtJson == <<"application/json">>
CtJsonCharset == <<"application/json", ";", "charset=utf-8">>
CtJsonLines == <<"application/json", "l">>
CtText == <<"text/plain">>
ContentTypes == {CtJson, CtJsonCharset, CtJsonLines, CtText}

\* Request bodies: JSON documents.
Bodies == {[type |-> "e1"], [type |-> "e2"], [type |-> "ex"], [name |-> "e1"]}

\* Values of absent things.
PyNone == [py_none |-> TRUE]
NoExc == [cls |-> "none", msg |-> <<>>, status_code |-> 0]
Absent == "<absent>"
NoBody == [no_body |-> TRUE]
HtmlError == [html |-> "Internal Server Error"]
HtmlBadRequest == [html |-> "Bad Request"]

Formats == {Absent, "email", "bogus"}
Emails == {Absent, "a@b.com"}
JobIds == 1..MaxJobs

VARIABLES
  event_lookup,   \* the event table, a module-level dict
  process_lookup, \* the process table, a module-level dict
  hives,        \* the connection cache: process name -> connection object
  constructed,  \* HiveInstance objects constructed so far, per process name
  jobs,         \* the jobs each backend holds, per process name
  next_id,      \* the next job id each backend hands out
  req           \* per worker: the request it is handling

vars == <<event_lookup, process_lookup, hives, constructed, jobs, next_id, req>>

\* ------------------------------------------------------------ requests
IdleReq ==
  [op |-> "none", pc |-> "idle", ctype |-> <<>>, data |-> NoBody,
   event |-> PyNone, created |-> <<>>, deleted |-> <<>>,
   process |-> "", job_id |-> 0, format |-> Absent, email |-> Absent,
   i |-> 0, hive |-> 0, job |-> 0, results |-> <<>>, reports |-> <<>>,
   logs |-> <<>>, trace |-> <<>>, exc |-> "none", status |-> 0, body |-> NoBody]

\* The workers of the service, and a worker that is switched off.
Workers == {"w1", "w2"}
OffReq == [IdleReq EXCEPT !.pc = "off"]

Free(w) == req[w].pc \in {"idle", "done"}

Step(name, p) == [step |-> name, process |-> p]

\* ----------------------------------------------------- error handling
HTTPRequestError(msg, code) == [cls |-> "HTTPRequestError", msg |-> msg, status_code |-> code]
EventNotFoundError(msg) == [cls |-> "EventNotFoundError", msg |-> msg, status_code |-> 0]
ProcessNotFoundError(msg) == [cls |-> "ProcessNotFoundError", msg |-> msg, status_code |-> 0]
Unhandled(cls) == [cls |-> cls, msg |-> <<cls>>, status_code |-> 0]

\* The three error handlers: log the message at ERROR, answer {error: message}.
handle_bad_request_error(r, e) ==
  [r EXCEPT !.logs = Append(@, [level |-> "ERROR", msg |-> e.msg]),
            !.status = e.status_code, !.body = [error |-> e.msg], !.pc = "done"]

\* A handler that answers without logging.
handle_event_not_found_error_nolog(r, e) ==
  [r EXCEPT !.status = 404, !.body = [error |-> e.msg], !.pc = "done"]

handle_event_not_found_error(r, e) ==
  [r EXCEPT !.logs = Append(@, [level |-> "ERROR", msg |-> e.msg]),
            !.status = 404, !.body = [error |-> e.msg], !.pc = "done"]

handle_process_not_found_error(r, e) ==
  [r EXCEPT !.logs = Append(@, [level |-> "ERROR", msg |-> e.msg]),
            !.status = 404, !.body = [error |-> e.msg], !.pc = "done"]

\* An exception leaving a view function: the registered handler of its class,
\* and the framework's 500 page for a class that has none.
Raise(r0, e) ==
  LET r == [r0 EXCEPT !.exc = e.cls]
  IN CASE e.cls = "HTTPRequestError" -> handle_bad_request_error(r, e)
       [] e.cls = "EventNotFoundError" -> handle_event_not_found_error(r, e)
       [] e.cls = "ProcessNotFoundError" -> handle_process_not_found_error(r, e)
       [] e.cls = "BadRequest" ->
            [r EXCEPT !.status = 400, !.body = HtmlBadRequest, !.pc = "done"]
       [] OTHER -> [r EXCEPT !.status = 500, !.body = HtmlError, !.pc = "done"]

Respond(r, body) == [r EXCEPT !.status = 200, !.body = body, !.pc = "done"]

\* ---------------------------------------------------------- reporting
Lower(level) ==
  CASE level = "DEBUG" -> "debug"
    [] level = "INFO" -> "info"
    [] level = "WARNING" -> "warning"
    [] level = "ERROR" -> "error"

make_report(level, msg) == [report_type |-> level, msg |-> msg]

\* log_and_publish: the local log entry, then the publish, which the message
\* bus accepts (ok) or fails with an exception that nothing catches.
log_and_publish(r, report, ok, next) ==
  LET level == report.report_type
      routing_key == <<"report.", Lower(level)>>
      logged == [r EXCEPT !.trace = Append(@, Step("log_and_publish", r.process)),
                          !.logs = Append(@, [level |-> level, msg |-> report.msg]),
                          !.reports = Append(@, [routing_key |-> routing_key,
                                                  report |-> report, ok |-> ok])]
  IN IF ok THEN [logged EXCEPT !.pc = next]
           ELSE Raise(logged, Unhandled("PublishError"))

\* ------------------------------------------------------- lookup tables
\* A lookup that answers an unknown type with no processes (a dict.get).
get_processes_for_event_get(event) ==
  IF event = PyNone THEN [exc |-> Unhandled("TypeError"), val |-> <<>>]
  ELSE IF "type" \notin DOMAIN event THEN [exc |-> Unhandled("KeyError"), val |-> <<>>]
  ELSE IF event.type \notin DOMAIN event_lookup THEN [exc |-> NoExc, val |-> <<>>]
  ELSE [exc |-> NoExc, val |-> event_lookup[event.type]]

\* get_processes_for_event: the exception it raises, or the process list.
get_processes_for_event(event) ==
  IF event = PyNone THEN [exc |-> Unhandled("TypeError"), val |-> <<>>]
  ELSE IF "type" \notin DOMAIN event THEN [exc |-> Unhandled("KeyError"), val |-> <<>>]
  ELSE IF event.type \notin DOMAIN event_lookup
    THEN [exc |-> EventNotFoundError(<<"Event type ", event.type, " not known">>), val |-> <<>>]
  ELSE [exc |-> NoExc, val |-> event_lookup[event.type]]

get_analysis(process) ==
  IF process \notin DOMAIN process_lookup
    THEN [exc |-> ProcessNotFoundError(<<"Process ", process, " not known">>), val |-> ""]
  ELSE [exc |-> NoExc, val |-> process_lookup[process].analysis]

\* ------------------------------------------------------- content type
\* json_pattern.match: re.match anchors the pattern at the start only.
json_pattern_match(ctype) ==
  /\ Len(ctype) >= 1
  /\ SubSeq(ctype, 1, 1) = <<"application/json">>

\* The mimetype of a Content-Type header: what precedes the first ";".
RECURSIVE MimeType(_)
MimeType(ctype) ==
  IF ctype = <<>> \/ Head(ctype) = ";" THEN <<>>
  ELSE <<Head(ctype)>> \o MimeType(Tail(ctype))

is_json(ctype) == MimeType(ctype) = <<"application/json">>

\* request.json: the parsed body when the mimetype is JSON; otherwise None, or
\* (later framework versions) a Bad Request raised by the framework.
request_json(ctype, data) ==
  IF is_json(ctype) THEN {[exc |-> NoExc, val |-> data]}
  ELSE {[exc |-> NoExc, val |-> PyNone], [exc |-> Unhandled("BadRequest"), val |-> PyNone]}

\* ------------------------------------------------------------ POST /jobs
\* submit_job up to the loop: the content type, the body, the event lookup.
submit_job_begin(r0, j) ==
  IF ~json_pattern_match(r0.ctype)
    THEN Raise(r0, HTTPRequestError(<<"Could not handle input of type ", r0.ctype>>,
                                    DefaultStatusCode))
  ELSE IF j.exc # NoExc THEN Raise(r0, j.exc)
  ELSE LET r1 == [r0 EXCEPT !.event = j.val]
           ps == get_processes_for_event(j.val)
       IN IF ps.exc # NoExc THEN Raise(r1, ps.exc)
          ELSE IF ps.val = <<>>
            THEN Respond(r1, [processes |-> <<>>, event |-> r1.event])
          ELSE [r1 EXCEPT !.i = 1, !.process = ps.val[1], !.pc = "submit_publish"]

SubmitJob(w) ==
  /\ Free(w)
  /\ \E ctype \in ContentTypes, data \in Bodies :
       LET r0 == [IdleReq EXCEPT !.op = "submit", !.ctype = ctype, !.data = data]
       IN \E j \in request_json(ctype, data) :
            req' = [req EXCEPT ![w] = submit_job_begin(r0, j)]
  /\ UNCHANGED <<event_lookup, process_lookup, hives, constructed, jobs, next_id>>

\* Line 127: the DEBUG report of the process about to be submitted.
SubmitPublish(w) ==
  /\ req[w].pc = "submit_publish"
  /\ \E ok \in BOOLEAN :
       req' = [req EXCEPT ![w] =
                 log_and_publish(req[w],
                                 make_report("DEBUG", <<"Submitting process ", req[w].process>>),
                                 ok, "get_hive")]
  /\ UNCHANGED <<event_lookup, process_lookup, hives, constructed, jobs, next_id>>

\* ------------------------------------------------------------- get_hive
\* A routing that sends the plain GET of a job down the DELETE path.
AfterHive_misrouted(r) ==
  CASE r.op = "submit" -> "create_job"
    [] r.op = "job" /\ r.format = Absent -> "get_job"
    [] r.op = "job" /\ r.format = "email" -> "email_get"
    [] r.op = "jobs" -> "get_all"
    [] r.op = "delete" -> "get_job"

\* Where a handler goes on once get_hive has returned.
AfterHive(r) ==
  CASE r.op = "submit" -> "create_job"
    [] r.op = "job" /\ r.format = Absent -> "get_result"
    [] r.op = "job" /\ r.format = "email" -> "email_get"
    [] r.op = "jobs" -> "get_all"
    [] r.op = "delete" -> "get_job"

\* A get_hive that does not test the cache.
get_hive_check_nocache(r, cache) ==
  LET t == [r EXCEPT !.trace = Append(@, Step("get_hive", r.process))]
  IN IF r.process \notin DOMAIN process_lookup
       THEN Raise(t, ProcessNotFoundError(<<"Process ", r.process, " not known">>))
     ELSE [t EXCEPT !.pc = "hive_new"]

\* Lines 80-82: the cache test, then the process table test.
get_hive_check(r, cache) ==
  LET t == [r EXCEPT !.trace = Append(@, Step("get_hive", r.process))]
  IN IF r.process \in DOMAIN cache THEN [t EXCEPT !.pc = "hive_ret"]
     ELSE IF r.process \notin DOMAIN process_lookup
       THEN Raise(t, ProcessNotFoundError(<<"Process ", r.process, " not known">>))
     ELSE [t EXCEPT !.pc = "hive_new"]

GetHiveCheck(w) ==
  /\ req[w].pc = "get_hive"
  /\ req' = [req EXCEPT ![w] = get_hive_check(req[w], hives)]
  /\ UNCHANGED <<event_lookup, process_lookup, hives, constructed, jobs, next_id>>

\* Line 83: a new HiveInstance is constructed and stored in the cache.
GetHiveConstruct(w) ==
  /\ req[w].pc = "hive_new"
  /\ LET p == req[w].process
     IN /\ constructed' = [constructed EXCEPT ![p] = @ + 1]
        /\ hives' = (p :> constructed'[p]) @@ hives
        /\ req' = [req EXCEPT ![w].trace = Append(@, Step("HiveInstance", p)),
                              ![w].pc = "hive_ret"]
  /\ UNCHANGED <<event_lookup, process_lookup, jobs, next_id>>

\* Line 84: the cache is read again for the value returned.
GetHiveReturn(w) ==
  /\ req[w].pc = "hive_ret"
  /\ req' = [req EXCEPT ![w].hive = hives[req[w].process],
                        ![w].pc = AfterHive(req[w])]
  /\ UNCHANGED <<event_lookup, process_lookup, hives, constructed, jobs, next_id>>

\* ------------------------------------------------- POST /jobs, continued
\* A create_job that never takes the status code of line 133.
create_job_rejected_default(t) ==
  Raise(t, HTTPRequestError(<<"ValueError", "create_job">>, DefaultStatusCode))

\* Lines 132-133: the backend's ValueError becomes an HTTPRequestError, 404.
create_job_rejected(t) ==
  Raise(t, HTTPRequestError(<<"ValueError", "create_job">>, 404))

\* Lines 129-133: the analysis, then create_job, which the backend accepts
\* (a job with a fresh id) or rejects with a ValueError.
SubmitCreate(w) ==
  /\ req[w].pc = "create_job"
  /\ LET r == req[w]
         p == r.process
         a == get_analysis(p)
         t == [r EXCEPT !.trace = Append(Append(@, Step("get_analysis", p)),
                                         Step("create_job", p))]
     IN IF a.exc # NoExc
          THEN /\ req' = [req EXCEPT ![w] = Raise(r, a.exc)]
               /\ UNCHANGED <<jobs, next_id>>
        ELSE \/ /\ next_id[p] <= MaxJobs
                /\ jobs' = [jobs EXCEPT ![p] = @ \cup {next_id[p]}]
                /\ next_id' = [next_id EXCEPT ![p] = @ + 1]
                /\ req' = [req EXCEPT ![w] =
                             [t EXCEPT !.job = next_id[p],
                                       !.created = Append(@, [process |-> p, job |-> next_id[p]]),
                                       !.pc = "dispatch"]]
             \/ /\ req' = [req EXCEPT ![w] = create_job_rejected(t)]
                /\ UNCHANGED <<jobs, next_id>>
  /\ UNCHANGED <<event_lookup, process_lookup, hives, constructed>>

\* A dispatch that always names the event's first process in the task.
submit_dispatch_first(r) ==
  LET ps == event_lookup[r.event.type]
      task == [event |-> r.event, process |-> ps[1], job |-> r.job]
      t == [r EXCEPT !.trace = Append(@, Step("delay", r.process)),
                     !.results = Append(@, [process |-> r.process, job |-> r.job,
                                            task |-> task])]
  IN IF r.i < Len(ps)
       THEN [t EXCEPT !.i = r.i + 1, !.process = ps[r.i + 1], !.pc = "submit_publish"]
     ELSE Respond(t, [processes |-> t.results, event |-> t.event])

\* Lines 134-140: the submission task, the result entry, the next process or
\* the response.
submit_dispatch(r) ==
  LET ps == event_lookup[r.event.type]
      task == [event |-> r.event, process |-> r.process, job |-> r.job]
      t == [r EXCEPT !.trace = Append(@, Step("delay", r.process)),
                     !.results = Append(@, [process |-> r.process, job |-> r.job,
                                            task |-> task])]
  IN IF r.i < Len(ps)
       THEN [t EXCEPT !.i = r.i + 1, !.process = ps[r.i + 1], !.pc = "submit_publish"]
     ELSE Respond(t, [processes |-> t.results, event |-> t.event])

SubmitDispatch(w) ==
  /\ req[w].pc = "dispatch"
  /\ req' = [req EXCEPT ![w] = submit_dispatch(req[w])]
  /\ UNCHANGED <<event_lookup, process_lookup, hives, constructed, jobs, next_id>>

\* -------------------------------------------- GET /jobs/<process>/<job_id>
\* A job() that takes every format other than email for no format.
job_begin_lenient(r0, ok) ==
  IF r0.format = "email"
    THEN IF r0.email = Absent
           THEN Raise(r0, HTTPRequestError(<<"Email not specified">>, DefaultStatusCode))
         ELSE log_and_publish(r0,
                make_report("INFO", <<"Retrieving job with ID ", ToString(r0.job_id),
                                      " for ", r0.email>>),
                ok, "get_hive")
  ELSE log_and_publish(r0,
         make_report("INFO", <<"Retrieving job from ", r0.process, " with ID ",
                               ToString(r0.job_id)>>),
         ok, "get_hive")

\* job, and the first line of results or results_email: the format, the
\* email, then the INFO report.
job_begin(r0, ok) ==
  IF r0.format = "email"
    THEN IF r0.email = Absent
           THEN Raise(r0, HTTPRequestError(<<"Email not specified">>, DefaultStatusCode))
         ELSE log_and_publish(r0,
                make_report("INFO", <<"Retrieving job with ID ", ToString(r0.job_id),
                                      " for ", r0.email>>),
                ok, "get_hive")
  ELSE IF r0.format = Absent
    THEN log_and_publish(r0,
           make_report("INFO", <<"Retrieving job from ", r0.process, " with ID ",
                                 ToString(r0.job_id)>>),
           ok, "get_hive")
  ELSE Raise(r0, HTTPRequestError(<<"Format ", r0.format, " not known">>, DefaultStatusCode))

Job(w) ==
  /\ Free(w)
  /\ \E process \in ProcessNames, job_id \in JobIds, format \in Formats,
        email \in Emails, ok \in BOOLEAN :
       /\ format # "email" => email = Absent
       /\ req' = [req EXCEPT ![w] =
                    job_begin([IdleReq EXCEPT !.op = "job", !.process = process,
                                              !.job_id = job_id, !.format = format,
                                              !.email = email], ok)]
  /\ UNCHANGED <<event_lookup, process_lookup, hives, constructed, jobs, next_id>>

\* Lines 212-216: get_result_for_job_id gives the result document, or raises a
\* ValueError (no such job, or a job without a result).
results(r, has_result) ==
  LET t == [r EXCEPT !.trace = Append(@, Step("get_result_for_job_id", r.process))]
  IN IF r.job_id \in jobs[r.process] /\ has_result
       THEN Respond(t, [job_id |-> r.job_id, output |-> "done"])
     ELSE Raise(t, HTTPRequestError(<<"ValueError", "get_result_for_job_id">>, 404))

Results(w) ==
  /\ req[w].pc = "get_result"
  /\ \E has_result \in BOOLEAN : req' = [req EXCEPT ![w] = results(req[w], has_result)]
  /\ UNCHANGED <<event_lookup, process_lookup, hives, constructed, jobs, next_id>>

\* Lines 288-295: get_job_by_id, get_result_for_job_id, the email field.
results_email(r, has_result) ==
  LET t1 == [r EXCEPT !.trace = Append(@, Step("get_job_by_id", r.process))]
      t2 == [t1 EXCEPT !.trace = Append(@, Step("get_result_for_job_id", r.process))]
  IN IF r.job_id \notin jobs[r.process]
       THEN Raise(t1, HTTPRequestError(<<"ValueError", "get_job_by_id">>, 404))
     ELSE IF ~has_result
       THEN Raise(t2, HTTPRequestError(<<"ValueError", "get_result_for_job_id">>, 404))
     ELSE Respond(t2, [job_id |-> r.job_id, output |-> "done", email |-> r.email])

ResultsEmail(w) ==
  /\ req[w].pc = "email_get"
  /\ \E has_result \in BOOLEAN :
       req' = [req EXCEPT ![w] = results_email(req[w], has_result)]
  /\ UNCHANGED <<event_lookup, process_lookup, hives, constructed, jobs, next_id>>

\* ------------------------------------------------------ GET /jobs/<process>
\* Line 332: the INFO report.
Jobs(w) ==
  /\ Free(w)
  /\ \E process \in ProcessNames, ok \in BOOLEAN :
       req' = [req EXCEPT ![w] =
                 log_and_publish([IdleReq EXCEPT !.op = "jobs", !.process = process],
                                 make_report("INFO", <<"Retrieving jobs">>), ok, "get_hive")]
  /\ UNCHANGED <<event_lookup, process_lookup, hives, constructed, jobs, next_id>>

\* Line 333, after get_hive: the analysis, then get_all_results.
jobs_results(r) ==
  LET a == get_analysis(r.process)
      t == [r EXCEPT !.trace = Append(Append(@, Step("get_analysis", r.process)),
                                      Step("get_all_results", r.process))]
  IN IF a.exc # NoExc THEN Raise(r, a.exc)
     ELSE Respond(t, [results |-> jobs[r.process]])

JobsResults(w) ==
  /\ req[w].pc = "get_all"
  /\ req' = [req EXCEPT ![w] = jobs_results(req[w])]
  /\ UNCHANGED <<event_lookup, process_lookup, hives, constructed, jobs, next_id>>

\* ----------------------------------------- DELETE /jobs/<process>/<job_id>
\* Line 276: the handler starts with get_hive.
DeleteJob(w) ==
  /\ Free(w)
  /\ \E process \in ProcessNames, job_id \in JobIds :
       req' = [req EXCEPT ![w] = [IdleReq EXCEPT !.op = "delete", !.process = process,
                                                !.job_id = job_id, !.pc = "get_hive"]]
  /\ UNCHANGED <<event_lookup, process_lookup, hives, constructed, jobs, next_id>>

\* Line 277: get_job_by_id, outside the try: its ValueError has no handler.
delete_get_job(r) ==
  LET t == [r EXCEPT !.trace = Append(@, Step("get_job_by_id", r.process))]
  IN IF r.job_id \in jobs[r.process]
       THEN [t EXCEPT !.job = r.job_id, !.pc = "delete_job"]
     ELSE Raise(t, Unhandled("ValueError"))

DeleteGetJob(w) ==
  /\ req[w].pc = "get_job"
  /\ req' = [req EXCEPT ![w] = delete_get_job(req[w])]
  /\ UNCHANGED <<event_lookup, process_lookup, hives, constructed, jobs, next_id>>

\* A delete_job that empties the backend.
delete_from_all(js, job) == {}

\* What delete_job leaves of a backend's jobs when it deletes job.
delete_from(js, job) == js \ {job}

\* Lines 278-282: delete_job removes the job, or raises a ValueError (the job
\* may not be deleted).
DeleteJobDelete(w) ==
  /\ req[w].pc = "delete_job"
  /\ LET r == req[w]
         p == r.process
         t == [r EXCEPT !.trace = Append(@, Step("delete_job", p))]
     IN \/ /\ r.job \in jobs[p]
           /\ jobs' = [jobs EXCEPT ![p] = delete_from(@, r.job)]
           /\ req' = [req EXCEPT ![w] =
                        Respond([t EXCEPT !.deleted = Append(@, [process |-> p, job |-> r.job])],
                                [id |-> r.job_id, process |-> p])]
        \/ /\ req' = [req EXCEPT ![w] =
                        Raise(t, HTTPRequestError(<<"ValueError", "delete_job">>, 404))]
           /\ UNCHANGED jobs
  /\ UNCHANGED <<event_lookup, process_lookup, hives, constructed, next_id>>

\* ------------------------------------------------- GET /events, /processes
\* list(d.keys()): the keys of a dict, each once, in the dict's order.
RECURSIVE KeyList(_)
KeyList(ks) ==
  IF ks = {} THEN <<>>
  ELSE LET k == CHOOSE x \in ks : TRUE IN <<k>> \o KeyList(ks \ {k})

\* An events() that lists the other table.
events_body_processes == [keys |-> KeyList(DOMAIN process_lookup)]

\* Line 359.
events_body == [keys |-> KeyList(DOMAIN event_lookup)]

\* Line 385.
processes_body == [keys |-> KeyList(DOMAIN process_lookup)]

Events(w) ==
  /\ Free(w)
  /\ req' = [req EXCEPT ![w] = Respond([IdleReq EXCEPT !.op = "events"], events_body)]
  /\ UNCHANGED <<event_lookup, process_lookup, hives, constructed, jobs, next_id>>

Processes(w) ==
  /\ Free(w)
  /\ req' = [req EXCEPT ![w] =
               Respond([IdleReq EXCEPT !.op = "processes"], processes_body)]
  /\ UNCHANGED <<event_lookup, process_lookup, hives, constructed, jobs, next_id>>

\* --------------------------------------------------------- specification

Init ==
  /\ event_lookup = event_lookup_json
  /\ process_lookup = process_lookup_json
  /\ hives = [p \in {} |-> 0]
  /\ constructed = [p \in ProcessNames |-> 0]
  /\ jobs = [p \in DOMAIN process_lookup_json |-> {}]
  /\ next_id = [p \in DOMAIN process_lookup_json |-> 1]
  /\ req = [w \in Workers |-> IF w = "w1" THEN IdleReq ELSE OffReq]

InitConc ==
  /\ event_lookup = event_lookup_json
  /\ process_lookup = process_lookup_json
  /\ hives = [p \in {} |-> 0]
  /\ constructed = [p \in ProcessNames |-> 0]
  /\ jobs = [p \in DOMAIN process_lookup_json |-> {}]
  /\ next_id = [p \in DOMAIN process_lookup_json |-> 1]
  /\ req = [w \in Workers |-> IdleReq]

Next ==
    \/ \E w \in Workers : SubmitJob(w)
    \/ \E w \in Workers : SubmitPublish(w)
    \/ \E w \in Workers : GetHiveCheck(w)
    \/ \E w \in Workers : GetHiveConstruct(w)
    \/ \E w \in Workers : GetHiveReturn(w)
    \/ \E w \in Workers : SubmitCreate(w)
    \/ \E w \in Workers : SubmitDispatch(w)
    \/ \E w \in Workers : Job(w)
    \/ \E w \in Workers : Results(w)
    \/ \E w \in Workers : ResultsEmail(w)
    \/ \E w \in Workers : Jobs(w)
    \/ \E w \in Workers : JobsResults(w)
    \/ \E w \in Workers : DeleteJob(w)
    \/ \E w \in Workers : DeleteGetJob(w)
    \/ \E w \in Workers : DeleteJobDelete(w)
    \/ \E w \in Workers : Events(w)
    \/ \E w \in Workers : Processes(w)

\* A worker that has not handled a request yet.
Fresh(w) == req[w].pc = "idle"

\* Next, with every worker handling a single request.
NextConc ==
    \/ \E w \in Workers : Fresh(w) /\ SubmitJob(w)
    \/ \E w \in Workers : SubmitPublish(w)
    \/ \E w \in Workers : GetHiveCheck(w)
    \/ \E w \in Workers : GetHiveConstruct(w)
    \/ \E w \in Workers : GetHiveReturn(w)
    \/ \E w \in Workers : SubmitCreate(w)
    \/ \E w \in Workers : SubmitDispatch(w)
    \/ \E w \in Workers : Fresh(w) /\ Job(w)
    \/ \E w \in Workers : Results(w)
    \/ \E w \in Workers : ResultsEmail(w)
    \/ \E w \in Workers : Fresh(w) /\ Jobs(w)
    \/ \E w \in Workers : JobsResults(w)
    \/ \E w \in Workers : Fresh(w) /\ DeleteJob(w)
    \/ \E w \in Workers : DeleteGetJob(w)
    \/ \E w \in Workers : DeleteJobDelete(w)
    \/ \E w \in Workers : Fresh(w) /\ Events(w)
    \/ \E w \in Workers : Fresh(w) /\ Processes(w)

\* One worker: requests are handled one after the other.
Spec == Init /\ [][Next]_vars

\* Two workers, one request each: two requests are handled concurrently.
SpecConc == InitConc /\ [][NextConc]_vars
\* ================================================================ claims
Done(w, op) == req[w].op = op /\ req[w].pc = "done"

\* The steps of a request's trace that are calls of name.
Invoked(r, name) == SelectSeq(r.trace, LAMBDA s : s.step = name)

BackendOps ==
  {"create_job", "get_job_by_id", "get_result_for_job_id", "delete_job", "get_all_results"}

\* The request never reached a backend, nor the construction of a connection.
NoBackendCall(r) ==
  \A k \in 1..Len(r.trace) : r.trace[k].step \notin BackendOps \cup {"HiveInstance"}

IsErrorBody(r) == DOMAIN r.body = {"error"}

\* A POST whose body is a JSON event of a type the event table holds.
KnownEvent(r) ==
  /\ r.op = "submit"
  /\ is_json(r.ctype)
  /\ "type" \in DOMAIN r.data
  /\ r.data.type \in DOMAIN event_lookup

AllKnown(ps) == \A k \in 1..Len(ps) : ps[k] \in DOMAIN process_lookup

\* Every create_job the request called was accepted.
AllAccepted(r) == Len(Invoked(r, "create_job")) = Len(r.created)

\* C1: a POST of a known event type with N processes (all of them known
\* processes), every job creation accepted, answers with N entries, the i-th
\* naming the i-th process of the table, the jobs created in that order.
C1_SubmitAllProcesses ==
  \A w \in Workers :
    LET r == req[w]
    IN (Done(w, "submit") /\ KnownEvent(r) /\ AllKnown(event_lookup[r.data.type])
          /\ AllAccepted(r))
       => LET ps == event_lookup[r.data.type]
          IN /\ r.status = 200
             /\ Len(r.body.processes) = Len(ps)
             /\ \A k \in 1..Len(ps) : r.body.processes[k].process = ps[k]
             /\ [k \in 1..Len(r.created) |-> r.created[k].process] = ps

\* C2: however two concurrent requests interleave, one connection object at
\* most is constructed per process name.
C2_OneConnectionPerProcess ==
  \A p \in ProcessNames : constructed[p] <= 1

\* The request ended on the backend's rejection of create_job.
CreateRejected(r) ==
  /\ r.op = "submit"
  /\ r.pc = "done"
  /\ Len(Invoked(r, "create_job")) = Len(r.created) + 1

\* C3: when the backend rejects the job of the k-th process of a POST, the
\* jobs of the processes before it are still in their backends, the request
\* deleted nothing and created nothing from the k-th process on, and the
\* answer is 404 with an error body.
C3_PartialFailureKeepsJobs ==
  \A w \in Workers :
    LET r == req[w]
    IN CreateRejected(r)
       => LET ps == event_lookup[r.event.type]
          IN /\ r.status = 404
             /\ IsErrorBody(r)
             /\ Len(r.created) = r.i - 1
             /\ \A k \in 1..Len(r.created) :
                  /\ r.created[k].process = ps[k]
                  /\ r.created[k].job \in jobs[ps[k]]
             /\ Invoked(r, "delete_job") = <<>>
             /\ r.deleted = <<>>

C3_Witness ==
  \E w \in Workers :
    /\ CreateRejected(req[w])
    /\ req[w].i = 2
    /\ Len(req[w].created) = 1
    /\ req[w].status = 404

\* C4: every report is logged locally at its level and published under the
\* key report.<level>; a failed publish leaves the log entry written and the
\* request does not end in a 5xx.
C4_PublishFailureHarmless ==
  \A w \in Workers :
    LET r == req[w]
    IN \A k \in 1..Len(r.reports) :
         LET rep == r.reports[k]
         IN /\ rep.routing_key = <<"report.", Lower(rep.report.report_type)>>
            /\ \E n \in 1..Len(r.logs) :
                 r.logs[n] = [level |-> rep.report.report_type, msg |-> rep.report.msg]
            /\ (~rep.ok /\ r.pc = "done") => r.status < 500

\* C5: a POST of a JSON event of a type the event table does not hold is
\* answered 404 with a message containing the type; nothing is published, no
\* connection is looked up or constructed, no job created, no task dispatched.
C5_UnknownEvent ==
  \A w \in Workers :
    LET r == req[w]
    IN (Done(w, "submit") /\ is_json(r.ctype) /\ "type" \in DOMAIN r.data
          /\ r.data.type \notin DOMAIN event_lookup)
       => /\ r.status = 404
          /\ IsErrorBody(r)
          /\ \E k \in 1..Len(r.body.error) : r.body.error[k] = r.data.type
          /\ r.reports = <<>>
          /\ r.trace = <<>>
          /\ r.created = <<>>
          /\ r.results = <<>>
          /\ r.hive = 0

C5_Witness ==
  \E w \in Workers :
    /\ Done(w, "submit")
    /\ req[w].ctype = CtJsonCharset
    /\ req[w].data = [type |-> "ex"]
    /\ req[w].status = 404
    /\ \E p \in DOMAIN jobs : jobs[p] # {}

\* C6: a POST whose content type is not JSON is answered 400 whatever its
\* body, and the body is not looked at: no event, no report, no connection,
\* no job.
C6_NonJsonRejected ==
  \A w \in Workers :
    LET r == req[w]
    IN (Done(w, "submit") /\ ~is_json(r.ctype))
       => /\ r.status = 400
          /\ r.event = PyNone
          /\ r.reports = <<>>
          /\ r.trace = <<>>
          /\ r.created = <<>>

\* C7: a POST of a JSON event without a type field is an input-validation
\* failure: 400 with an error body, and no job.
C7_MissingTypeRejected ==
  \A w \in Workers :
    LET r == req[w]
    IN (Done(w, "submit") /\ is_json(r.ctype) /\ "type" \notin DOMAIN r.data)
       => /\ r.status = 400
          /\ IsErrorBody(r)
          /\ r.created = <<>>

\* A request that gets as far as get_hive: a DELETE, a GET of a process's
\* jobs, a GET of a job with no format or with format=email and an email.
ReachesGetHive(r) ==
  \/ r.op \in {"jobs", "delete"}
  \/ r.op = "job" /\ r.format = Absent
  \/ r.op = "job" /\ r.format = "email" /\ r.email # Absent

\* C8: such a request naming a process the process table does not hold is
\* answered 404, with no connection constructed and no backend operation.
C8_UnknownProcess404 ==
  \A w \in Workers :
    LET r == req[w]
    IN (r.pc = "done" /\ ReachesGetHive(r) /\ r.process \notin DOMAIN process_lookup)
       => /\ r.status = 404
          /\ IsErrorBody(r)
          /\ NoBackendCall(r)
          /\ r.process \notin DOMAIN hives

\* C9: a DELETE of a job id that the backend of a known process does not hold
\* is answered 404 with an error body, and deletes nothing.
C9_DeleteMissingJob404 ==
  \A w \in Workers :
    LET r == req[w]
    IN (Done(w, "delete") /\ r.process \in DOMAIN process_lookup
          /\ r.job_id \notin jobs[r.process] /\ r.deleted = <<>>)
       => /\ r.status = 404
          /\ IsErrorBody(r)

\* C10: the step of a DELETE that asks the backend to delete job j of process
\* p either ends in 404 with the backends and the connection cache as they
\* were (p still cached), or in 200 {id: j, process: p} with exactly j
\* removed from p's backend.
C10_DeleteStep ==
  [][\A w \in Workers :
       (req[w].pc = "delete_job" /\ req'[w].pc = "done")
       => LET r == req[w]
              a == req'[w]
              p == r.process
          IN /\ hives' = hives
             /\ p \in DOMAIN hives'
             /\ \/ /\ a.status = 404
                   /\ IsErrorBody(a)
                   /\ jobs' = jobs
                \/ /\ a.status = 200
                   /\ a.body = [id |-> r.job_id, process |-> p]
                   /\ r.job_id \in jobs[p]
                   /\ jobs' = [jobs EXCEPT ![p] = @ \ {r.job_id}]]_vars

C10_Witness ==
  \E w \in Workers :
    LET r == req[w]
    IN /\ Done(w, "delete")
       /\ r.status = 404
       /\ Invoked(r, "delete_job") # <<>>
       /\ r.job_id \in jobs[r.process]
       /\ r.process \in DOMAIN hives
       /\ Cardinality(jobs[r.process]) = 2
\* C11: a GET of a job with format=email and no email is answered 400 "Email
\* not specified" with no report, no connection lookup and no backend call;
\* with an email e and a job the backend holds and has a result for, the
\* answer is the result document with the field email set to e.
C11_EmailFormat ==
  \A w \in Workers :
    LET r == req[w]
    IN (Done(w, "job") /\ r.format = "email")
       => /\ r.email = Absent
               => /\ r.status = 400
                  /\ r.body = [error |-> <<"Email not specified">>]
                  /\ r.reports = <<>>
                  /\ r.trace = <<>>
                  /\ r.hive = 0
          /\ (r.email # Absent /\ r.process \in DOMAIN process_lookup
                /\ r.job_id \in jobs[r.process] /\ r.exc # "HTTPRequestError")
               => /\ r.status = 200
                  /\ r.body = [job_id |-> r.job_id, output |-> "done", email |-> r.email]
\* C12: a GET of a job with a format that is neither absent nor email is
\* answered 400 with a message holding that value, whatever the process and
\* the job id; it reports nothing, looks up no connection, calls no backend.
C12_UnknownFormat ==
  \A w \in Workers :
    LET r == req[w]
    IN (r.op = "job" /\ r.format \notin {Absent, "email"})
       => /\ r.pc = "done"
          /\ r.status = 400
          /\ r.body = [error |-> <<"Format ", r.format, " not known">>]
          /\ r.reports = <<>>
          /\ r.trace = <<>>
          /\ r.hive = 0

C12_Witness ==
  \E w \in Workers :
    /\ Done(w, "job")
    /\ req[w].format = "bogus"
    /\ req[w].process = "px"
    /\ req[w].status = 400
    /\ DOMAIN hives = DOMAIN process_lookup
\* The elements of a list, and a list that holds none of them twice.
Range(q) == {q[k] : k \in 1..Len(q)}
NoDuplicates(q) == \A j, k \in 1..Len(q) : q[j] = q[k] => j = k

\* C13: whatever requests came before, the tables are the documents loaded
\* at startup, GET /events answers the keys of the event document and
\* GET /processes the keys of the process document, each key once.
C13_TablesReadOnly ==
  /\ event_lookup = event_lookup_json
  /\ process_lookup = process_lookup_json
  /\ \A w \in Workers :
       LET r == req[w]
       IN /\ Done(w, "events")
               => /\ r.status = 200
                  /\ Range(r.body.keys) = DOMAIN event_lookup_json
                  /\ NoDuplicates(r.body.keys)
          /\ Done(w, "processes")
               => /\ r.status = 200
                  /\ Range(r.body.keys) = DOMAIN process_lookup_json
                  /\ NoDuplicates(r.body.keys)

C13_Witness ==
  \E w \in Workers :
    /\ Done(w, "events")
    /\ Len(req[w].body.keys) = 2
    /\ DOMAIN hives = DOMAIN process_lookup
    /\ \A p \in DOMAIN jobs : jobs[p] # {}
    /\ \E p \in DOMAIN jobs : next_id[p] > MaxJobs
\* The steps submit_job takes for one process, and for a list of processes.
ProcessSteps(p) ==
  <<Step("log_and_publish", p), Step("get_hive", p), Step("get_analysis", p),
    Step("create_job", p), Step("delay", p)>>

RECURSIVE Plan(_)
Plan(ps) == IF ps = <<>> THEN <<>> ELSE ProcessSteps(Head(ps)) \o Plan(Tail(ps))

IsPrefix(a, b) == Len(a) <= Len(b) /\ SubSeq(b, 1, Len(a)) = a

\* The calls of a POST so far, the construction of connections left out, are
\* a prefix of the plan: process after process, each in the order report,
\* connection, analysis, create, dispatch.
InPlanOrder(r) ==
  IsPrefix(SelectSeq(r.trace, LAMBDA s : s.step # "HiveInstance"),
           Plan(event_lookup[r.event.type]))

\* The POST reached position k of its list and ended there, and the process
\* at that position is not in the process table.
EndedAtUnknownProcess(r) ==
  /\ r.op = "submit"
  /\ r.pc = "done"
  /\ r.i >= 1
  /\ r.process \notin DOMAIN process_lookup

\* C14: the steps of a POST follow the plan; and a POST that reaches a
\* process absent from the process table has published the DEBUG report for
\* it, ends in 404, and the jobs of the processes before it are created.
C14_SubmitOrder ==
  \A w \in Workers :
    LET r == req[w]
    IN /\ (r.op = "submit" /\ r.i >= 1) => InPlanOrder(r)
       /\ EndedAtUnknownProcess(r)
            => /\ \E k \in 1..Len(r.reports) :
                    /\ r.reports[k].report =
                         make_report("DEBUG", <<"Submitting process ", r.process>>)
                    /\ r.reports[k].ok
               /\ r.status = 404
               /\ Len(r.created) = r.i - 1
               /\ \A k \in 1..Len(r.created) : r.created[k].job \in jobs[r.created[k].process]
\* C15: with requests handled one after the other, the keys of the
\* connection cache are process names of the process table, and no step
\* removes an entry or replaces its connection object.
C15_CacheStable ==
  /\ [](DOMAIN hives \subseteq DOMAIN process_lookup)
  /\ [][\A p \in DOMAIN hives : p \in DOMAIN hives' /\ hives'[p] = hives[p]]_vars

C15_Witness ==
  /\ DOMAIN hives = DOMAIN process_lookup
  /\ \E w \in Workers :
       /\ req[w].pc = "done"
       /\ req[w].status = 404
       /\ req[w].exc = "ProcessNotFoundError"
       /\ req[w].op = "submit"
       /\ req[w].hive = 1
DomainErrors == {"HTTPRequestError", "EventNotFoundError", "ProcessNotFoundError"}

\* The error was found in the request itself: a content type the pattern
\* does not match, format=email without an email, an unknown format.
LocallyDetected(r) ==
  \/ r.op = "submit" /\ ~json_pattern_match(r.ctype)
  \/ r.op = "job" /\ r.format = "email" /\ r.email = Absent
  \/ r.op = "job" /\ r.format \notin {Absent, "email"}

\* The request ended on a backend call that raised a ValueError.
BackendRejected(r) ==
  /\ r.exc = "HTTPRequestError"
  /\ r.trace # <<>>
  /\ r.trace[Len(r.trace)].step \in
       {"create_job", "get_result_for_job_id", "get_job_by_id", "delete_job"}

\* C16: a request that ends in a domain error is answered {error: message},
\* the message being the last local log entry, at ERROR; the status is 400
\* when the error was detected locally, and otherwise 404, the cause being an
\* unknown event type, an unknown process or a backend rejection.
C16_DomainErrors ==
  \A w \in Workers :
    LET r == req[w]
    IN (r.pc = "done" /\ r.exc \in DomainErrors)
       => /\ IsErrorBody(r)
          /\ r.logs # <<>>
          /\ r.logs[Len(r.logs)] = [level |-> "ERROR", msg |-> r.body.error]
          /\ r.status = IF LocallyDetected(r) THEN 400 ELSE 404
          /\ ~LocallyDetected(r)
               => \/ r.exc = "EventNotFoundError" /\ r.event.type \notin DOMAIN event_lookup
                  \/ r.exc = "ProcessNotFoundError" /\ r.process \notin DOMAIN process_lookup
                  \/ BackendRejected(r)

C16_Witness ==
  \E w \in Workers :
    /\ Done(w, "submit")
    /\ req[w].exc = "EventNotFoundError"
    /\ req[w].status = 404
    /\ req[w].logs = <<[level |-> "ERROR", msg |-> req[w].body.error]>>
\* C17: each submission task dispatched by a POST /jobs names a job that the
\* same request created before, with that job's process and the request's
\* event; the k-th task belongs to the k-th created job, so no job has two
\* tasks; and a POST that returns 200 dispatched as many tasks as it created
\* jobs.
C17_TasksMatchJobs ==
  \A w \in Workers :
    LET r == req[w]
    IN r.op = "submit"
       => /\ Len(r.results) <= Len(r.created)
          /\ Len(Invoked(r, "delay")) = Len(r.results)
          /\ \A k \in 1..Len(r.results) :
               r.results[k].task = [event |-> r.event,
                                    process |-> r.created[k].process,
                                    job |-> r.created[k].job]
          /\ \A k, l \in 1..Len(r.created) : r.created[k] = r.created[l] => k = l
          /\ (r.pc = "done" /\ r.status = 200) => Len(r.results) = Len(r.created)

C17_Witness ==
  \E w \in Workers :
    /\ Done(w, "submit")
    /\ req[w].status = 200
    /\ Len(req[w].results) = 2
    /\ Len(req[w].created) = 2

ReadOps == {"job", "jobs", "events", "processes"}

\* C18: a step of a read request (GET of a job in any format, of a process's
\* jobs, of the events, of the processes) leaves every backend's jobs and the
\* two tables as they were, the request has invoked neither create_job nor
\* delete_job, and the connection cache changes at most by a store at the
\* request's process, which is a known process.
C18_ReadsKeepJobs ==
  [][\A w \in Workers :
       (req'[w] # req[w] /\ req'[w].op \in ReadOps)
       => /\ jobs' = jobs
          /\ next_id' = next_id
          /\ event_lookup' = event_lookup
          /\ process_lookup' = process_lookup
          /\ Invoked(req'[w], "create_job") = <<>>
          /\ Invoked(req'[w], "delete_job") = <<>>
          /\ \/ hives' = hives
             \/ LET p == req[w].process
                IN /\ p \in DOMAIN process_lookup
                   /\ DOMAIN hives' = DOMAIN hives \cup {p}
                   /\ \A q \in DOMAIN hives \ {p} : hives'[q] = hives[q]]_vars

C18_Witness ==
  \E w \in Workers :
    /\ Done(w, "jobs")
    /\ req[w].status = 200
    /\ Invoked(req[w], "HiveInstance") # <<>>
    /\ Invoked(req[w], "get_all_results") # <<>>
    /\ \E p \in DOMAIN jobs : jobs[p] # {}
====
